---- MODULE Spec2Model ----
(***************************************************************************)
(* Restaurant-Radar: the load / normalise / filter pipeline of the two     *)
(* dashboards, europe_restaurants_app.py ("europe") and                    *)
(* restaurant_radar.py ("radar").                                          *)
(*                                                                         *)
(* Representation.  A column name or a text cell is a sequence of tokens,  *)
(* the token " " being one blank, so that strip() and replace(" ", "_")    *)
(* are computed.  A float cell carries ten times its value (42 is 4.2);    *)
(* an int cell (after astype(int)) carries whole units.  A frame is a      *)
(* record of its column names and its rows, each row a sequence of cells   *)
(* aligned with the columns.  An optional frame is <<>> or <<frame>>.      *)
(***************************************************************************)
EXTENDS Integers, Sequences, FiniteSets, TLC

VARIABLES
    app,          \* which script runs: "europe" or "radar"
    file,         \* rest.csv on disk (never written by either script)
    pc,           \* position of the running script / of load_data
    attempts,     \* the pd.read_csv calls made so far, by encoding label
    used_enc,     \* load_data's local used_enc
    df,           \* europe: df (in load_data, then the global); radar: data
    result,       \* what load_data returned (optional frame)
    err,          \* the st.error / st.warning the run ended in ("" if none)
    missing_cols, \* load_data's local missing_cols
    info,         \* the st.info text of line 68
    original_df,  \* europe: original_df (line 123); radar: data after line 60
    pred,         \* the values the widgets returned in this run
    filtered_df   \* europe: filtered_df; radar: df_filtered (optional frame)

vars == <<app, file, pc, attempts, used_enc, df, result, err, missing_cols,
          info, original_df, pred, filtered_df>>

(***************************************************************************)
(* Bounds of the model.                                                    *)
(***************************************************************************)
\* Rows of a file given to load_data.
MaxRows == 3

\* Rows of a file given to the script runs.
MaxFilterRows == 2

(***************************************************************************)
(* Cells.                                                                  *)
(***************************************************************************)
NA == [k |-> "na", s |-> <<>>, n |-> 0]

Txt(s) == [k |-> "txt", s |-> s, n |-> 0]

Num(n) == [k |-> "num", s |-> <<>>, n |-> n]

IntCell(n) == [k |-> "int", s |-> <<>>, n |-> n]

IsNumeric(c) == c.k \in {"num", "int"}

\* The value of a numeric cell in tenths, whatever its dtype.
Tenths(c) == IF c.k = "int" THEN 10 * c.n ELSE c.n

None == <<>>

Some(f) == <<f>>

(***************************************************************************)
(* str.strip() and str.replace(" ", "_") on token sequences.               *)
(***************************************************************************)
RECURSIVE LStrip(_)
LStrip(s) ==
    IF s # <<>> /\ Head(s) = " " THEN LStrip(Tail(s)) ELSE s

RECURSIVE RStrip(_)
RStrip(s) ==
    IF s # <<>> /\ s[Len(s)] = " " THEN RStrip(SubSeq(s, 1, Len(s) - 1)) ELSE s

Strip(s) == RStrip(LStrip(s))

ReplaceBlank(s) == [i \in 1..Len(s) |-> IF s[i] = " " THEN "_" ELSE s[i]]

\* Series.str.strip(): text is stripped, a missing value stays missing.
StripCell(c) == IF c.k = "txt" THEN Txt(Strip(c.s)) ELSE c

(***************************************************************************)
(* Frames.                                                                 *)
(***************************************************************************)
Frame(cols, rows) == [columns |-> cols, rows |-> rows]

HasCol(fr, name) == \E i \in 1..Len(fr.columns) : fr.columns[i] = name

ColIdx(fr, name) == CHOOSE i \in 1..Len(fr.columns) : fr.columns[i] = name

Cell(fr, row, name) == row[ColIdx(fr, name)]

ColCells(fr, name) == {fr.rows[r][ColIdx(fr, name)] : r \in 1..Len(fr.rows)}

\* df[name]: the column's cells, row by row.
Col(fr, name) == [r \in 1..Len(fr.rows) |-> fr.rows[r][ColIdx(fr, name)]]

\* df[name] = cells.
SetCol(fr, name, cells) ==
    [fr EXCEPT !.rows =
        [r \in 1..Len(fr.rows) |->
            [fr.rows[r] EXCEPT ![ColIdx(fr, name)] = cells[r]]]]

\* A column of dtype object: one that holds a string.
IsObjectCol(fr, i) == \E r \in 1..Len(fr.rows) : fr.rows[r][i].k = "txt"

\* Boolean-mask row selection df[mask]: the rows whose mask entry is TRUE,
\* in the frame's order.
RECURSIVE MaskSelect(_, _)
MaskSelect(rows, mask) ==
    IF rows = <<>> THEN <<>>
    ELSE (IF Head(mask) THEN <<Head(rows)>> ELSE <<>>)
            \o MaskSelect(Tail(rows), Tail(mask))

MaskRows(fr, mask) == [fr EXCEPT !.rows = MaskSelect(fr.rows, mask)]

(***************************************************************************)
(* europe_restaurants_app.py, load_data.                                   *)
(***************************************************************************)
encodings == <<"utf-8", "utf-8-sig", "gbk", "gb18030", "latin1">>

required_columns ==
    << <<"Name">>, <<"City">>, <<"Cuisine", " ", "Style">>, <<"Ranking">>,
       <<"Rating">>, <<"Price", " ", "Range">>,
       <<"Number", " ", "of", " ", "Reviews">> >>

ColReviews == <<"Number", " ", "of", " ", "Reviews">>

ColRating == <<"Rating">>

ColVolume == <<"review_volume">>

\* pd.read_csv(..., index_col=0): the first column becomes the index and is
\* no column of the frame.
ReadCsv(f) ==
    Frame(Tail(f.header), [r \in 1..Len(f.rows) |-> Tail(f.rows[r])])

\* Lines 71-73: column names stripped; every object column's values stripped.
StripFrame(fr) ==
    Frame([i \in 1..Len(fr.columns) |-> Strip(fr.columns[i])],
          [r \in 1..Len(fr.rows) |->
              [i \in 1..Len(fr.columns) |->
                  IF IsObjectCol(fr, i) THEN StripCell(fr.rows[r][i])
                                        ELSE fr.rows[r][i]]])

\* Line 80: the required columns that are no column of df, in list order.
RECURSIVE MissingFrom(_, _)
MissingFrom(req, fr) ==
    IF req = <<>> THEN <<>>
    ELSE (IF HasCol(fr, Head(req)) THEN <<>> ELSE <<Head(req)>>)
            \o MissingFrom(Tail(req), fr)

\* A variant of MissingCols that stops at the first absent column.
MissingColsFirstOnly(fr) ==
    SubSeq(MissingFrom(required_columns, fr), 1, 1)

MissingCols(fr) == MissingFrom(required_columns, fr)

\* pd.to_numeric(errors='coerce'): what is no number becomes NaN.
ToNumeric(c) == IF IsNumeric(c) THEN c ELSE NA

FillNa(c, v) == IF c.k = "na" THEN v ELSE c

\* astype(int) of a float: truncation toward zero.
AsTypeInt(c) ==
    IF c.k = "int" THEN c
    ELSE IntCell(IF c.n >= 0 THEN c.n \div 10 ELSE -((-c.n) \div 10))

\* Line 89.
CoerceReviewCell(c) == AsTypeInt(FillNa(ToNumeric(c), Num(0)))

CoerceReviews(fr) ==
    IF HasCol(fr, ColReviews)
    THEN SetCol(fr, ColReviews,
                [r \in 1..Len(fr.rows) |->
                    CoerceReviewCell(Col(fr, ColReviews)[r])])
    ELSE fr

\* A variant of ColMin that takes the greatest value.
ColMinAsMax(cells) ==
    LET nums == {c \in cells : IsNumeric(c)}
    IN  IF nums = {} THEN NA
        ELSE CHOOSE m \in nums : \A c \in nums : Tenths(m) >= Tenths(c)

\* Series.min(): the least value, NaN skipped; NaN when there is none.
ColMin(cells) ==
    LET nums == {c \in cells : IsNumeric(c)}
    IN  IF nums = {} THEN NA
        ELSE CHOOSE m \in nums : \A c \in nums : Tenths(m) <= Tenths(c)

ColMax(cells) ==
    LET nums == {c \in cells : IsNumeric(c)}
    IN  IF nums = {} THEN NA
        ELSE CHOOSE m \in nums : \A c \in nums : Tenths(m) >= Tenths(c)

\* Lines 93-98.
FillRatingCell(c, lo) == FillNa(c, IF lo.k = "na" THEN Num(0) ELSE lo)

CoerceRating(fr) ==
    IF HasCol(fr, ColRating)
    THEN LET num == [r \in 1..Len(fr.rows) |-> ToNumeric(Col(fr, ColRating)[r])]
             lo  == ColMin({num[r] : r \in 1..Len(fr.rows)})
         IN  SetCol(fr, ColRating,
                    [r \in 1..Len(fr.rows) |-> FillRatingCell(num[r], lo)])
    ELSE fr

\* pd.cut(x, bins=[-1, 1000, 3000, inf], labels=[Low, Medium, High]):
\* right-closed intervals; a value in none of them gets NaN.
CutBins == <<-1, 1000, 3000>>

Cut(c) ==
    IF c.n > CutBins[1] /\ c.n <= CutBins[2] THEN Txt(<<"Low">>)
    ELSE IF c.n > CutBins[2] /\ c.n <= CutBins[3] THEN Txt(<<"Medium">>)
    ELSE IF c.n > CutBins[3] THEN Txt(<<"High">>)
    ELSE NA

\* Lines 100-105: the column is appended only when the source has none.
DeriveReviewVolume(fr) ==
    IF HasCol(fr, ColVolume) THEN fr
    ELSE Frame(Append(fr.columns, ColVolume),
               [r \in 1..Len(fr.rows) |->
                   Append(fr.rows[r],
                          Cut(AsTypeInt(FillNa(Cell(fr, fr.rows[r], ColReviews),
                                               IntCell(0)))))])

\* Lines 107-114.
RenameOne(name) ==
    IF name = <<"Name">> THEN <<"restaurant_name">>
    ELSE IF name = <<"City">> THEN <<"city">>
    ELSE IF name = <<"Cuisine", " ", "Style">> THEN <<"cuisine">>
    ELSE IF name = <<"Rating">> THEN <<"rating">>
    ELSE IF name = <<"Price", " ", "Range">> THEN <<"price_range">>
    ELSE IF name = ColReviews THEN <<"review_count">>
    ELSE name

RenameColumns(fr) ==
    [fr EXCEPT !.columns =
        [i \in 1..Len(fr.columns) |-> RenameOne(fr.columns[i])]]

(***************************************************************************)
(* The input files.  A file is whether it exists, which of the listed      *)
(* encodings parse it, whether the lenient fallback call parses it, and    *)
(* its header and rows as read_csv types them.                             *)
(***************************************************************************)
IndexCol == <<"Unnamed:", " ", "0">>

Padded(name) == <<" ">> \o name \o <<" ">>

RECURSIVE Pick(_, _, _)
Pick(seq, S, i) ==
    IF i > Len(seq) THEN <<>>
    ELSE (IF i \in S THEN <<seq[i]>> ELSE <<>>) \o Pick(seq, S, i + 1)

PadAll(names) == [i \in 1..Len(names) |-> Padded(names[i])]

\* Headers that hold any part of the required columns, with or without the
\* leading index column, spelled exactly or with blanks around every name.
SchemaHeaders ==
    {h \in {(IF idx THEN <<IndexCol>> ELSE <<>>)
                \o (IF pad THEN PadAll(Pick(required_columns, S, 1))
                           ELSE Pick(required_columns, S, 1)) :
              S \in SUBSET (1..Len(required_columns)),
              idx \in BOOLEAN, pad \in BOOLEAN} : h # <<>>}

FullHeader == <<IndexCol>> \o required_columns

\* The complete header followed by a source-supplied review_volume column.
VolumeHeader == Append(FullHeader, ColVolume)

RatingPool == {NA, Txt(<<"n/a">>), Num(39), Num(42)}

ReviewsPool ==
    {Txt(<<"few">>), Num(-50), Num(10000), Num(30000), Num(30010)}

CellPool(name) ==
    IF Strip(name) = ColRating THEN RatingPool
    ELSE IF Strip(name) = ColReviews THEN ReviewsPool
    ELSE IF Strip(name) = ColVolume THEN {Txt(<<"Huge">>)}
    ELSE IF Strip(name) = IndexCol THEN {Num(0)}
    ELSE IF Strip(name) = <<"Ranking">> THEN {Num(10)}
    ELSE {Txt(<<" ", "Paris">>)}

RECURSIVE RowsFor(_)
RowsFor(header) ==
    IF header = <<>> THEN {<<>>}
    ELSE {<<c>> \o r : c \in CellPool(Head(header)),
                       r \in RowsFor(Tail(header))}

SampleCell(name) ==
    IF Strip(name) = ColRating THEN Num(42)
    ELSE IF Strip(name) = ColReviews THEN Num(15000)
    ELSE CHOOSE c \in CellPool(name) : TRUE

SampleRow(header) == [i \in 1..Len(header) |-> SampleCell(header[i])]

EncSet == {encodings[i] : i \in 1..Len(encodings)}

\* The fallback call is reached only when no listed encoding parses.
DecodeProfiles ==
    {[decodes |-> d, lenient |-> l] :
        d \in SUBSET EncSet, l \in BOOLEAN} \
    {[decodes |-> d, lenient |-> TRUE] : d \in (SUBSET EncSet) \ {{}}}

MkFile(ex, prof, header, rows) ==
    [exists |-> ex, decodes |-> prof.decodes, lenient |-> prof.lenient,
     header |-> header, rows |-> rows]

\* The inputs of load_data: the absent file; every decode profile with
\* every schema header and one sample row; every table of at most MaxRows
\* rows under the full header, in a file every listed encoding parses.
IsLoadFile(f) ==
    \/ f = MkFile(FALSE, [decodes |-> {}, lenient |-> FALSE], FullHeader, <<>>)
    \/ \E p \in DecodeProfiles, h \in SchemaHeaders \cup {VolumeHeader} :
            f = MkFile(TRUE, p, h, <<SampleRow(h)>>)
    \/ \E n \in 0..MaxRows :
            \E t \in [1..n -> RowsFor(FullHeader)] :
                f = MkFile(TRUE, [decodes |-> EncSet, lenient |-> FALSE],
                           FullHeader, t)

NoPred ==
    [cities |-> {}, cuisines |-> {}, price_ranges |-> {}, min_rating |-> 0,
     review_volume |-> "All", reviews_min |-> 0, reviews_max |-> 0]

(***************************************************************************)
(* load_data of europe_restaurants_app.py, statement by statement.         *)
(***************************************************************************)
Init ==
    /\ app = "europe"
    /\ IsLoadFile(file)
    /\ pc = "exists_check"
    /\ attempts = <<>>
    /\ used_enc = ""
    /\ df = None
    /\ result = None
    /\ err = ""
    /\ missing_cols = <<>>
    /\ info = ""
    /\ original_df = None
    /\ pred = NoPred
    /\ filtered_df = None

\* Lines 42-44.
CheckExists ==
    /\ pc = "exists_check"
    /\ IF file.exists
       THEN pc' = "try" /\ err' = err
       ELSE pc' = "stopped" /\ err' = "not_found"
    /\ UNCHANGED <<app, file, attempts, used_enc, df, result, missing_cols,
                   info, original_df, pred, filtered_df>>

\* A variant of TryEncoding without the break of line 54.
TryEncodingNoBreak ==
    /\ pc = "try"
    /\ LET enc == encodings[Len(attempts) + 1]
       IN  /\ attempts' = Append(attempts, enc)
           /\ IF enc \in file.decodes
              THEN df' = Some(ReadCsv(file)) /\ used_enc' = enc
              ELSE df' = df /\ used_enc' = used_enc
           /\ pc' = IF Len(attempts) + 1 < Len(encodings) THEN "try"
                    ELSE IF df' = None THEN "fallback" ELSE "report"
    /\ UNCHANGED <<app, file, result, err, missing_cols, info, original_df,
                   pred, filtered_df>>

\* Lines 49-56: one turn of the loop over encodings.
TryEncoding ==
    /\ pc = "try"
    /\ LET enc == encodings[Len(attempts) + 1]
       IN  /\ attempts' = Append(attempts, enc)
           /\ IF enc \in file.decodes
              THEN /\ df' = Some(ReadCsv(file))
                   /\ used_enc' = enc
                   /\ pc' = "report"
              ELSE /\ df' = df
                   /\ used_enc' = used_enc
                   /\ pc' = IF Len(attempts) + 1 = Len(encodings)
                            THEN "fallback" ELSE "try"
    /\ UNCHANGED <<app, file, result, err, missing_cols, info, original_df,
                   pred, filtered_df>>

\* Lines 58-66: df is None, the lenient call.
Fallback ==
    /\ pc = "fallback"
    /\ attempts' = Append(attempts, "latin1-fallback")
    /\ IF file.lenient
       THEN /\ df' = Some(ReadCsv(file))
            /\ used_enc' = "latin1-fallback"
            /\ pc' = "report"
            /\ err' = err
       ELSE /\ df' = df
            /\ used_enc' = used_enc
            /\ pc' = "stopped"
            /\ err' = "unreadable"
    /\ UNCHANGED <<app, file, result, missing_cols, info, original_df, pred,
                   filtered_df>>

\* Line 68.
ReportEncoding ==
    /\ pc = "report"
    /\ info' = used_enc
    /\ pc' = "strip"
    /\ UNCHANGED <<app, file, attempts, used_enc, df, result, err,
                   missing_cols, original_df, pred, filtered_df>>

\* Lines 71-73.
StripStep ==
    /\ pc = "strip"
    /\ df' = Some(StripFrame(df[1]))
    /\ pc' = "validate"
    /\ UNCHANGED <<app, file, attempts, used_enc, result, err, missing_cols,
                   info, original_df, pred, filtered_df>>

\* Lines 76-85.
ValidateColumns ==
    /\ pc = "validate"
    /\ missing_cols' = MissingCols(df[1])
    /\ IF missing_cols' # <<>>
       THEN pc' = "stopped" /\ err' = "missing_columns"
       ELSE pc' = "coerce_reviews" /\ err' = err
    /\ UNCHANGED <<app, file, attempts, used_enc, df, result, info,
                   original_df, pred, filtered_df>>

\* Lines 88-89.
CoerceReviewsStep ==
    /\ pc = "coerce_reviews"
    /\ df' = Some(CoerceReviews(df[1]))
    /\ pc' = "coerce_rating"
    /\ UNCHANGED <<app, file, attempts, used_enc, result, err, missing_cols,
                   info, original_df, pred, filtered_df>>

\* Lines 92-98.
CoerceRatingStep ==
    /\ pc = "coerce_rating"
    /\ df' = Some(CoerceRating(df[1]))
    /\ pc' = "derive_volume"
    /\ UNCHANGED <<app, file, attempts, used_enc, result, err, missing_cols,
                   info, original_df, pred, filtered_df>>

\* Lines 100-105.
DeriveVolumeStep ==
    /\ pc = "derive_volume"
    /\ df' = Some(DeriveReviewVolume(df[1]))
    /\ pc' = "rename"
    /\ UNCHANGED <<app, file, attempts, used_enc, result, err, missing_cols,
                   info, original_df, pred, filtered_df>>

\* Lines 107-116.
RenameAndReturn ==
    /\ pc = "rename"
    /\ df' = Some(RenameColumns(df[1]))
    /\ result' = df'
    /\ pc' = "returned"
    /\ UNCHANGED <<app, file, attempts, used_enc, err, missing_cols, info,
                   original_df, pred, filtered_df>>

Next ==
    \/ CheckExists
    \/ TryEncoding
    \/ Fallback
    \/ ReportEncoding
    \/ StripStep
    \/ ValidateColumns
    \/ CoerceReviewsStep
    \/ CoerceRatingStep
    \/ DeriveVolumeStep
    \/ RenameAndReturn

Spec == Init /\ [][Next]_vars

(***************************************************************************)
(* load_data of europe_restaurants_app.py as one call: what it returns or  *)
(* the error it stops in.                                                  *)
(***************************************************************************)
Normalize(parsed) ==
    RenameColumns(DeriveReviewVolume(CoerceRating(CoerceReviews(parsed))))

LoadData(f) ==
    IF ~f.exists THEN [err |-> "not_found", frame |-> None]
    ELSE IF f.decodes = {} /\ ~f.lenient
    THEN [err |-> "unreadable", frame |-> None]
    ELSE IF MissingCols(StripFrame(ReadCsv(f))) # <<>>
    THEN [err |-> "missing_columns", frame |-> None]
    ELSE [err |-> "", frame |-> Some(Normalize(StripFrame(ReadCsv(f))))]

(***************************************************************************)
(* europe_restaurants_app.py, the script below load_data.                  *)
(***************************************************************************)
ColCity == <<"city">>

ColCuisine == <<"cuisine">>

ColPrice == <<"price_range">>

ColRatingC == <<"rating">>

ColCount == <<"review_count">>

\* A variant of Isin for which an empty selection selects everything.
IsinEmptyAll(c, values) == values = {} \/ c \in values

\* Series.isin(values): NaN is in values when values holds NaN.
Isin(c, values) == c \in values

\* A variant of GeTenths that compares strictly.
GtTenths(c, x) == IsNumeric(c) /\ Tenths(c) > x

\* Series >= x: FALSE on NaN.
GeTenths(c, x) == IsNumeric(c) /\ Tenths(c) >= x

LeTenths(c, x) == IsNumeric(c) /\ Tenths(c) <= x

LtTenths(c, x) == IsNumeric(c) /\ Tenths(c) < x

\* Lines 183-186, the four terms of the mask.
EuropeCityCond(fr, row, p) == Isin(Cell(fr, row, ColCity), p.cities)

EuropeCuisineCond(fr, row, p) == Isin(Cell(fr, row, ColCuisine), p.cuisines)

EuropePriceCond(fr, row, p) == Isin(Cell(fr, row, ColPrice), p.price_ranges)

EuropeRatingCond(fr, row, p) ==
    GeTenths(Cell(fr, row, ColRatingC), p.min_rating)

\* Lines 182-187: one mask, the four terms joined by &.
EuropeMask(fr, p) ==
    LET Keep(row) ==
            /\ EuropeCityCond(fr, row, p)
            /\ EuropeCuisineCond(fr, row, p)
            /\ EuropePriceCond(fr, row, p)
            /\ EuropeRatingCond(fr, row, p)
    IN  MaskRows(fr, [r \in 1..Len(fr.rows) |-> Keep(fr.rows[r])])

\* A variant of EuropeVolume whose mask is taken from the rows of df at the
\* same positions instead of from the rows of the frame it filters.
EuropeVolumePositional(fr, p) ==
    IF p.review_volume # "All"
    THEN [fr EXCEPT !.rows =
            MaskSelect(fr.rows,
                       [i \in 1..Len(fr.rows) |->
                           Cell(df[1], df[1].rows[i], ColVolume)
                               = Txt(<<p.review_volume>>)])]
    ELSE fr

\* Lines 189-190.
EuropeVolume(fr, p) ==
    IF p.review_volume # "All"
    THEN LET Keep(row) == Cell(fr, row, ColVolume) = Txt(<<p.review_volume>>)
         IN  MaskRows(fr, [r \in 1..Len(fr.rows) |-> Keep(fr.rows[r])])
    ELSE fr

EuropeFilter(fr, p) == EuropeVolume(EuropeMask(fr, p), p)

\* The slider of lines 163-169: from the column minimum to the column
\* maximum in steps of 0.1.
RatingStops(fr) ==
    LET cells == ColCells(fr, ColRatingC)
    IN  Tenths(ColMin(cells)) .. Tenths(ColMax(cells))

EuropePreds(fr) ==
    {[cities |-> ci, cuisines |-> cu, price_ranges |-> pr, min_rating |-> mr,
      review_volume |-> rv, reviews_min |-> 0, reviews_max |-> 0] :
        ci \in SUBSET ColCells(fr, ColCity),
        cu \in SUBSET ColCells(fr, ColCuisine),
        pr \in SUBSET ColCells(fr, ColPrice),
        mr \in RatingStops(fr),
        rv \in {"All", "Low", "Medium", "High"}}

\* What the widgets return before the user touches them.
EuropeDefaultPred(fr) ==
    [cities |-> ColCells(fr, ColCity), cuisines |-> ColCells(fr, ColCuisine),
     price_ranges |-> ColCells(fr, ColPrice),
     min_rating |-> Tenths(ColMin(ColCells(fr, ColRatingC))),
     review_volume |-> "All", reviews_min |-> 0, reviews_max |-> 0]

(***************************************************************************)
(* restaurant_radar.py.                                                    *)
(***************************************************************************)
radar_encodings == <<"utf-8", "gbk", "latin1">>

ColStyle == <<"Cuisine", "_", "Style">>

ColNumReviews == <<"Number", "_", "of", "_", "Reviews">>

TopN == 10

SliderMin == 0

SliderMax == 5000

\* Lines 16-29: no index column is set apart; names are stripped and their
\* blanks replaced.  Any exception ends the script at lines 33-35.
RadarLoadData(f) ==
    IF ~f.exists
       \/ ~\E i \in 1..Len(radar_encodings) : radar_encodings[i] \in f.decodes
    THEN [err |-> "load_failed", frame |-> None]
    ELSE [err |-> "",
          frame |-> Some(Frame([i \in 1..Len(f.header) |->
                                    ReplaceBlank(Strip(f.header[i]))],
                               f.rows))]

\* Lines 41-43.
RadarCoerce(fr) ==
    LET Coerced(x, name) ==
            IF HasCol(x, name)
            THEN SetCol(x, name,
                        [r \in 1..Len(x.rows) |-> ToNumeric(Col(x, name)[r])])
            ELSE x
    IN  Coerced(Coerced(fr, ColNumReviews), ColRating)

\* Lines 51-59: the styles by falling frequency, ties by first appearance,
\* the first TopN of them.
StyleCount(fr, s) ==
    Cardinality({r \in 1..Len(fr.rows) : Cell(fr, fr.rows[r], ColStyle) = s})

FirstRow(fr, s) ==
    CHOOSE r \in 1..Len(fr.rows) :
        /\ Cell(fr, fr.rows[r], ColStyle) = s
        /\ \A q \in 1..(r - 1) : Cell(fr, fr.rows[q], ColStyle) # s

Top10Styles(fr) ==
    LET styles == {c \in ColCells(fr, ColStyle) : c.k # "na"}
        Before(t, s) ==
            \/ StyleCount(fr, t) > StyleCount(fr, s)
            \/ StyleCount(fr, t) = StyleCount(fr, s)
               /\ FirstRow(fr, t) < FirstRow(fr, s)
    IN  {s \in styles : Cardinality({t \in styles : Before(t, s)}) < TopN}

\* Line 60.
RadarTop10(fr) ==
    LET top == Top10Styles(fr)
        Keep(row) == Isin(Cell(fr, row, ColStyle), top)
    IN  MaskRows(fr, [r \in 1..Len(fr.rows) |-> Keep(fr.rows[r])])

\* int(x) of a float: truncation toward zero.
IntOf(c) == AsTypeInt(c).n

\* Lines 100-101.
RadarStyle(fr, p) ==
    LET Keep(row) == Isin(Cell(fr, row, ColStyle), p.cuisines)
    IN  MaskRows(fr, [r \in 1..Len(fr.rows) |-> Keep(fr.rows[r])])

\* Lines 106-111.
RadarViews(fr, p) ==
    LET Low(row) == LtTenths(Cell(fr, row, ColNumReviews), 1000)
        Medium(row) == /\ GeTenths(Cell(fr, row, ColNumReviews), 1000)
                       /\ LtTenths(Cell(fr, row, ColNumReviews), 5000)
        High(row) == GeTenths(Cell(fr, row, ColNumReviews), 5000)
        Keep(row) ==
            CASE p.review_volume = "Low (<100)" -> Low(row)
              [] p.review_volume = "Medium (100-499)" -> Medium(row)
              [] p.review_volume = "High (>=500)" -> High(row)
    IN  IF p.review_volume \in {"Low (<100)", "Medium (100-499)",
                                "High (>=500)"}
        THEN MaskRows(fr, [r \in 1..Len(fr.rows) |-> Keep(fr.rows[r])])
        ELSE fr

\* Lines 113-116.
RadarRange(fr, p) ==
    LET Keep(row) ==
            /\ GeTenths(Cell(fr, row, ColNumReviews), 10 * p.reviews_min)
            /\ LeTenths(Cell(fr, row, ColNumReviews), 10 * p.reviews_max)
    IN  MaskRows(fr, [r \in 1..Len(fr.rows) |-> Keep(fr.rows[r])])

RadarFilter(fr, p) == RadarRange(RadarViews(RadarStyle(fr, p), p), p)

\* Line 148.
RadarDropNa(fr) ==
    LET Keep(row) == /\ Cell(fr, row, ColStyle).k # "na"
                     /\ Cell(fr, row, ColRating).k # "na"
    IN  MaskRows(fr, [r \in 1..Len(fr.rows) |-> Keep(fr.rows[r])])

\* The positions of the range slider the model lets the user pick.
SliderStops == {0, 100, 500, 5000}

RadarViewsOptions == {"All", "Low (<100)", "Medium (100-499)", "High (>=500)"}

RadarDefaultPred(fr) ==
    [cities |-> {}, cuisines |-> Top10Styles(fr), price_ranges |-> {},
     min_rating |-> 0, review_volume |-> "All",
     reviews_min |-> IntOf(ColMin(ColCells(fr, ColNumReviews))),
     reviews_max |-> IntOf(ColMax(ColCells(fr, ColNumReviews)))]

RadarPreds(fr) ==
    LET d == RadarDefaultPred(fr)
        ranges == {<<d.reviews_min, d.reviews_max>>}
                    \cup {<<lo, hi>> \in SliderStops \X SliderStops : lo <= hi}
    IN  {[d EXCEPT !.cuisines = st, !.review_volume = vc,
                   !.reviews_min = rg[1], !.reviews_max = rg[2]] :
            st \in SUBSET Top10Styles(fr), vc \in RadarViewsOptions,
            rg \in ranges}

(***************************************************************************)
(* The script runs: streamlit executes the whole script once per user      *)
(* interaction; st.cache_data keeps load_data's return value across runs   *)
(* and hands each run a copy of it.                                        *)
(***************************************************************************)
Row(city, cuisine, rating, price, reviews) ==
    <<Num(0), Txt(<<"R">>), city, cuisine, Num(10), rating, price, reviews>>

Paris == Txt(<<"Paris">>)

Rome == Txt(<<"Rome">>)

French == Txt(<<"French">>)

Italian == Txt(<<"Italian">>)

Cheap == Txt(<<"$">>)

Mid == Txt(<<"$$">>)

\* The two rows of the specification's example, and rows with missing,
\* non-numeric and negative cells.
SampleRows ==
    <<Row(Paris, French, Num(42), Mid, Num(15000)),
      Row(Rome, Italian, Num(39), Cheap, Num(5000)),
      Row(NA, French, NA, Cheap, NA),
      Row(Paris, Italian, Num(40), NA, Num(2500)),
      Row(Rome, NA, Num(42), Mid, Num(35000)),
      Row(Paris, French, Txt(<<"n/a">>), Cheap, Num(-50))>>

\* The inputs of the script runs: the absent file, and every table made of
\* one to MaxFilterRows different sample rows, in the order listed, under
\* the full header.
IsFilterFile(f) ==
    \/ f = MkFile(FALSE, [decodes |-> {}, lenient |-> FALSE], FullHeader, <<>>)
    \/ \E n \in 1..MaxFilterRows :
            \E idx \in [1..n -> 1..Len(SampleRows)] :
                /\ \A i \in 1..(n - 1) : idx[i] < idx[i + 1]
                /\ f = MkFile(TRUE, [decodes |-> EncSet, lenient |-> FALSE],
                              FullHeader,
                              [i \in 1..n |-> SampleRows[idx[i]]])

InitFilter ==
    /\ app \in {"europe", "radar"}
    /\ IsFilterFile(file)
    /\ pc = "start"
    /\ attempts = <<>>
    /\ used_enc = ""
    /\ df = None
    /\ result = None
    /\ err = ""
    /\ missing_cols = <<>>
    /\ info = ""
    /\ original_df = None
    /\ pred = NoPred
    /\ filtered_df = None

\* europe lines 122-123: df = load_data(); original_df = df.copy().
EuropeLoad ==
    /\ app = "europe" /\ pc = "start"
    /\ LET out == IF result # None THEN [err |-> "", frame |-> result]
                  ELSE LoadData(file)
       IN  IF out.err # ""
           THEN /\ pc' = "stopped" /\ err' = out.err
                /\ UNCHANGED <<df, result, original_df>>
           ELSE /\ pc' = "widgets" /\ err' = err
                /\ result' = out.frame
                /\ df' = out.frame
                /\ original_df' = out.frame
    /\ UNCHANGED <<app, file, attempts, used_enc, missing_cols, info, pred,
                   filtered_df>>

\* europe lines 133-176.
EuropeWidgets ==
    /\ app = "europe" /\ pc = "widgets"
    /\ \E p \in EuropePreds(df[1]) : pred' = p
    /\ pc' = "filter"
    /\ UNCHANGED <<app, file, attempts, used_enc, df, result, err,
                   missing_cols, info, original_df, filtered_df>>

\* A variant of EuropeFilterStep that filters df in place.
EuropeFilterStepInPlace ==
    /\ app = "europe" /\ pc = "filter"
    /\ df' = Some(EuropeFilter(df[1], pred))
    /\ filtered_df' = df'
    /\ pc' = "filtered"
    /\ UNCHANGED <<app, file, attempts, used_enc, result, err, missing_cols,
                   info, original_df, pred>>

\* europe lines 182-190.
EuropeFilterStep ==
    /\ app = "europe" /\ pc = "filter"
    /\ filtered_df' = Some(EuropeFilter(df[1], pred))
    /\ pc' = "filtered"
    /\ UNCHANGED <<app, file, attempts, used_enc, df, result, err,
                   missing_cols, info, original_df, pred>>

\* europe lines 196-316: the cards, the table, the download and the charts
\* read filtered_df and df and assign neither.
EuropeDisplay ==
    /\ app = "europe" /\ pc = "filtered"
    /\ pc' = "done"
    /\ UNCHANGED <<app, file, attempts, used_enc, df, result, err,
                   missing_cols, info, original_df, pred, filtered_df>>

\* radar lines 31-35.
RadarLoad ==
    /\ app = "radar" /\ pc = "start"
    /\ LET out == IF result # None THEN [err |-> "", frame |-> result]
                  ELSE RadarLoadData(file)
       IN  IF out.err # ""
           THEN /\ pc' = "stopped" /\ err' = out.err
                /\ UNCHANGED <<df, result>>
           ELSE /\ pc' = "clean" /\ err' = err
                /\ result' = out.frame
                /\ df' = out.frame
    /\ UNCHANGED <<app, file, attempts, used_enc, missing_cols, info,
                   original_df, pred, filtered_df>>

\* radar lines 41-60.
RadarClean ==
    /\ app = "radar" /\ pc = "clean"
    /\ LET c == RadarCoerce(df[1])
       IN  IF ~HasCol(c, ColStyle)
           THEN df' = Some(c) /\ pc' = "stopped" /\ err' = "missing_style"
           ELSE df' = Some(RadarTop10(c)) /\ pc' = "widgets" /\ err' = err
    /\ UNCHANGED <<app, file, attempts, used_enc, result, missing_cols, info,
                   original_df, pred, filtered_df>>

\* radar lines 67-93: int() of a NaN minimum raises; the slider refuses a
\* default value outside [min_value, max_value].
RadarWidgets ==
    /\ app = "radar" /\ pc = "widgets"
    /\ LET cells == ColCells(df[1], ColNumReviews)
       IN  IF ColMin(cells).k = "na"
           THEN pc' = "stopped" /\ err' = "value_error" /\ pred' = pred
           ELSE IF \/ IntOf(ColMin(cells)) < SliderMin
                   \/ IntOf(ColMax(cells)) > SliderMax
           THEN pc' = "stopped" /\ err' = "slider_error" /\ pred' = pred
           ELSE /\ \E p \in RadarPreds(df[1]) : pred' = p
                /\ pc' = "filter" /\ err' = err
    /\ UNCHANGED <<app, file, attempts, used_enc, df, result, missing_cols,
                   info, original_df, filtered_df>>

\* radar lines 98-116.
RadarFilterStep ==
    /\ app = "radar" /\ pc = "filter"
    /\ IF pred.cuisines # {}
       THEN /\ filtered_df' = Some(RadarFilter(df[1], pred))
            /\ pc' = "filtered" /\ err' = err
       ELSE /\ filtered_df' = df
            /\ pc' = "stopped" /\ err' = "no_style"
    /\ UNCHANGED <<app, file, attempts, used_enc, df, result, missing_cols,
                   info, original_df, pred>>

\* radar lines 119-194: the line chart works on a sorted copy; the pie
\* chart rebinds df_filtered to its rows without NaN.
RadarCharts ==
    /\ app = "radar" /\ pc = "filtered"
    /\ filtered_df' =
          IF HasCol(filtered_df[1], ColRating) /\ filtered_df[1].rows # <<>>
          THEN Some(RadarDropNa(filtered_df[1]))
          ELSE filtered_df
    /\ pc' = "done"
    /\ UNCHANGED <<app, file, attempts, used_enc, df, result, err,
                   missing_cols, info, original_df, pred>>

\* The next interaction: the script starts over with fresh globals.
Rerun ==
    /\ pc \in {"done", "stopped"}
    /\ pc' = "start"
    /\ df' = None /\ original_df' = None /\ filtered_df' = None
    /\ pred' = NoPred /\ err' = ""
    /\ UNCHANGED <<app, file, attempts, used_enc, result, missing_cols, info>>

NextFilter ==
    \/ EuropeLoad
    \/ EuropeWidgets
    \/ EuropeFilterStep
    \/ EuropeDisplay
    \/ RadarLoad
    \/ RadarClean
    \/ RadarWidgets
    \/ RadarFilterStep
    \/ RadarCharts
    \/ Rerun

SpecFilter == InitFilter /\ [][NextFilter]_vars

(***************************************************************************)
(* Properties of load_data (specification Spec).                           *)
(***************************************************************************)

\* C1: after load every row's review_count is an integer that is not
\* negative, and its rating is a number, whatever the source cells held.
C1_CountNonNegativeRatingNumeric ==
    pc = "returned" =>
        \A r \in 1..Len(result[1].rows) :
            LET row == result[1].rows[r]
            IN  /\ Cell(result[1], row, ColCount).k = "int"
                /\ Cell(result[1], row, ColCount).n >= 0
                /\ IsNumeric(Cell(result[1], row, ColRatingC))

\* C2: when the source has no review_volume column, after load every row's
\* review_volume is Low for review_count <= 1000, Medium for
\* 1000 < review_count <= 3000 and High above; no row is without a bucket.
C2_DerivedBucketMatchesCount ==
    pc = "returned" /\ ~HasCol(StripFrame(ReadCsv(file)), ColVolume) =>
        \A r \in 1..Len(result[1].rows) :
            LET row == result[1].rows[r]
                n   == Cell(result[1], row, ColCount).n
            IN  Cell(result[1], row, ColVolume) =
                    Txt(<<IF n <= 1000 THEN "Low"
                          ELSE IF n <= 3000 THEN "Medium" ELSE "High">>)

C10_RatingFill ==
    pc = "returned" =>
        LET raw == StripFrame(ReadCsv(file))
            out == result[1]
            src == [r \in 1..Len(raw.rows) |-> Cell(raw, raw.rows[r], ColRating)]
            numeric == {r \in 1..Len(raw.rows) : src[r].k = "num"}
        IN  /\ Len(out.rows) = Len(raw.rows)
            /\ \A r \in 1..Len(raw.rows) :
                  LET got == Cell(out, out.rows[r], ColRatingC)
                  IN  IF r \in numeric THEN got = src[r]
                      ELSE IF numeric = {} THEN got = Num(0)
                      ELSE /\ \E q \in numeric : got = src[q]
                           /\ \A q \in numeric : got.n <= src[q].n

C10_Witness ==
    /\ pc = "returned"
    /\ Len(file.rows) = 3
    /\ file.rows[1][6] = Num(42)
    /\ file.rows[2][6] = NA
    /\ file.rows[3][6] = Num(39)
    /\ Cell(result[1], result[1].rows[2], ColRatingC) = Num(39)

(***************************************************************************)
(* Properties of the script runs (specification SpecFilter).               *)
(***************************************************************************)
DefaultPred ==
    IF app = "europe" THEN EuropeDefaultPred(df[1]) ELSE RadarDefaultPred(df[1])

\* C3: with every observed value of every categorical field selected, the
\* bucket choice All and the numeric ranges at their defaults, the filter
\* returns every row of the table it filters, rows with missing cells too.
C3_SelectAllReturnsAll ==
    pc = "filtered" /\ pred = DefaultPred => filtered_df = df

\* C4 as stated: the filter step never halts the run; it yields a table for
\* every predicate, the empty table when a selection set is empty.
C4_FilterNeverHalts ==
    /\ err # "no_style"
    /\ pc = "filtered" =>
          /\ filtered_df # None
          /\ (pred.cities = {} /\ app = "europe" => filtered_df[1].rows = <<>>)

\* C4 as amended: europe's filter step completes for every predicate and an
\* empty cities, cuisines or price-ranges set gives the empty table; radar's
\* filter step completes for every non-empty style selection, and with an
\* empty selection the run halts in the warning with no condition applied.
C4_FilterCompletesOrWarns ==
    /\ app = "europe" => err # "no_style"
    /\ app = "europe" /\ pc = "filtered" =>
          /\ filtered_df # None
          /\ filtered_df[1].columns = df[1].columns
          /\ (pred.cities = {} \/ pred.cuisines = {} \/ pred.price_ranges = {}
                => filtered_df[1].rows = <<>>)
    /\ app = "radar" /\ pc = "filtered" =>
          pred.cuisines # {} /\ filtered_df # None
    /\ app = "radar" /\ pc = "stopped" /\ pred # NoPred =>
          pred.cuisines = {} /\ err = "no_style" /\ filtered_df = df

C4_Witness ==
    /\ app = "europe" /\ pc = "filtered"
    /\ pred.cities = {} /\ pred.cuisines # {} /\ pred.price_ranges # {}
    /\ Len(df[1].rows) = 2
    /\ filtered_df[1].rows = <<>>

\* The sub-conditions of each script, one selection each.
Step(name, fr, p) ==
    LET Keep(row) ==
            CASE name = "city" -> EuropeCityCond(fr, row, p)
              [] name = "cuisine" -> EuropeCuisineCond(fr, row, p)
              [] name = "price" -> EuropePriceCond(fr, row, p)
              [] name = "rating" -> EuropeRatingCond(fr, row, p)
    IN  CASE name \in {"city", "cuisine", "price", "rating"} ->
                MaskRows(fr, [r \in 1..Len(fr.rows) |-> Keep(fr.rows[r])])
          [] name = "volume" -> EuropeVolume(fr, p)
          [] name = "style" -> RadarStyle(fr, p)
          [] name = "views" -> RadarViews(fr, p)
          [] name = "range" -> RadarRange(fr, p)

RECURSIVE ApplySteps(_, _, _)
ApplySteps(order, fr, p) ==
    IF order = <<>> THEN fr
    ELSE ApplySteps(Tail(order), Step(Head(order), fr, p), p)

Orders(names) ==
    {o \in [1..Cardinality(names) -> names] :
        \A i, j \in 1..Cardinality(names) : i # j => o[i] # o[j]}

EuropeOrders == Orders({"city", "cuisine", "price", "rating", "volume"})

RadarOrders == Orders({"style", "views", "range"})

\* C7: filtering the filter's output again with the same predicate changes
\* nothing, and applying the sub-conditions one after another in any order
\* gives the rows the filter gave, in the same order.
C7_IdempotentCommutative ==
    pc = "filtered" =>
        IF app = "europe"
        THEN /\ EuropeFilter(filtered_df[1], pred) = filtered_df[1]
             /\ \A o \in EuropeOrders :
                    ApplySteps(o, df[1], pred) = filtered_df[1]
        ELSE /\ RadarFilter(filtered_df[1], pred) = filtered_df[1]
             /\ \A o \in RadarOrders :
                    ApplySteps(o, df[1], pred) = filtered_df[1]

C7_Witness ==
    /\ app = "europe" /\ pc = "filtered"
    /\ pred.review_volume = "Low"
    /\ pred.cities # ColCells(df[1], ColCity)
    /\ Len(df[1].rows) = 2
    /\ Len(filtered_df[1].rows) = 1

\* C8: once loaded (for radar: once cleaned), the table the filters read is
\* what load returned, in every later position of every run, and the
\* cached return value of load_data never changes.
C8_CanonicalUnchanged ==
    /\ app = "europe" /\ pc \in {"widgets", "filter", "filtered", "done"} =>
          /\ result = LoadData(file).frame
          /\ df = result
          /\ original_df = result
    /\ app = "radar" /\ pc \in {"clean", "widgets", "filter", "filtered",
                                "done", "stopped"} /\ result # None =>
          result = RadarLoadData(file).frame
    /\ app = "radar" /\ (\/ pc \in {"widgets", "filter", "filtered", "done"}
                         \/ (pc = "stopped" /\ err \in {"no_style",
                                "value_error", "slider_error"})) =>
          df = Some(RadarTop10(RadarCoerce(result[1])))
    /\ pc = "start" /\ result # None =>
          result = (IF app = "europe" THEN LoadData(file)
                    ELSE RadarLoadData(file)).frame

C8_Witness ==
    /\ app = "europe" /\ pc = "done"
    /\ Len(df[1].rows) = 2
    /\ Len(filtered_df[1].rows) = 1
    /\ df = original_df

\* C9: the filter's output has the input's columns and exactly the input
\* rows that meet every condition of the predicate, each once and in the
\* input's order; the choice All removes no row.
C9_ExactlyTheMatchingRows ==
    pc = "filtered" =>
        LET fr == df[1]
            Count(row) == Cell(fr, row, ColNumReviews)
            RadarBucket(row) ==
                IF ~IsNumeric(Count(row)) THEN "none"
                ELSE IF Tenths(Count(row)) < 1000 THEN "Low (<100)"
                ELSE IF Tenths(Count(row)) < 5000 THEN "Medium (100-499)"
                ELSE "High (>=500)"
            Meets(row) ==
                IF app = "europe"
                THEN /\ Cell(fr, row, ColCity) \in pred.cities
                     /\ Cell(fr, row, ColCuisine) \in pred.cuisines
                     /\ Cell(fr, row, ColPrice) \in pred.price_ranges
                     /\ Cell(fr, row, ColRatingC).k \in {"num", "int"}
                     /\ Tenths(Cell(fr, row, ColRatingC)) >= pred.min_rating
                     /\ \/ pred.review_volume = "All"
                        \/ Cell(fr, row, ColVolume) = Txt(<<pred.review_volume>>)
                ELSE /\ Cell(fr, row, ColStyle) \in pred.cuisines
                     /\ \/ pred.review_volume = "All"
                        \/ RadarBucket(row) = pred.review_volume
                     /\ IsNumeric(Count(row))
                     /\ Tenths(Count(row)) >= 10 * pred.reviews_min
                     /\ Tenths(Count(row)) <= 10 * pred.reviews_max
        IN  /\ filtered_df[1].columns = fr.columns
            /\ filtered_df[1].rows = SelectSeq(fr.rows, Meets)

C9_Witness ==
    /\ app = "radar" /\ pc = "filtered"
    /\ pred.review_volume = "Medium (100-499)"
    /\ Len(df[1].rows) = 2
    /\ filtered_df[1].rows = <<df[1].rows[2]>>

====
